---------------------------- MODULE Spec2Model ----------------------------
(***************************************************************************)
(* Model of the RateLimiter class of src/index.ts (lines 34-242): the five *)
(* admission strategies fixedWindow, slidingLogs, leakyBucket,             *)
(* slidingWindow and tokenBucket, each a sequence of Redis commands issued *)
(* against keys derived from one client identifier.                        *)
(*                                                                         *)
(* The Redis server is modelled by the commands the strategies issue (GET, *)
(* SET .. EX, INCR, ZREMRANGEBYSCORE, ZCARD, ZADD, EXPIRE, HMGET, HSET)    *)
(* with their documented effect on values and on time-to-live.  Stored     *)
(* values are strings (sequences of characters); the strategies read them  *)
(* with parseInt and write them with toString.                             *)
(*                                                                         *)
(* A deployment calls one strategy for every request (the middleware of    *)
(* src/index.ts:10-20), so the strategy is chosen in Init and kept.  Calls *)
(* of this specification are sequential: a call runs to its return before  *)
(* the next one starts, and the clock does not move during a call.         *)
(***************************************************************************)
EXTENDS Integers, Sequences, FiniteSets

\* The budget of the exported instance, new RateLimiter(5, 10000).
maxRequests == 5
windowMs == 10000

\* Bounds of the model: the clock advances in steps of TickMs, at most
\* MaxTicks steps after the start and MaxTicksAfterJump steps after the one
\* jump towards a key's expiry; the record of recently allowed calls holds
\* at most MaxAllowed entries.
TickMs == 2500
MaxTicks == 6
MaxTicksAfterJump == 2
MaxAllowed == 11

\* Date.now() of the first request: milliseconds since the epoch, far above
\* windowMs.  The model starts on a window boundary two windows after 0.
StartTime == 2 * windowMs

Never == 0 - 1
NoExpiry == 0 - 1

Algorithms ==
    {"fixedWindow", "slidingLogs", "leakyBucket", "slidingWindow", "tokenBucket"}

\* The store operation of a call that fails: 0 for none, k for the k-th one
\* the call issues.
FailPoints(alg) == IF alg = "slidingLogs" THEN 0..4 ELSE 0..3

---------------------------------------------------------------------------
(* JavaScript values: strings, numbers, null, NaN *)

DigitChars == <<"0", "1", "2", "3", "4", "5", "6", "7", "8", "9">>

IsDigit(c) == c \in {"0", "1", "2", "3", "4", "5", "6", "7", "8", "9"}

DigitVal(c) ==
    CASE c = "0" -> 0 [] c = "1" -> 1 [] c = "2" -> 2 [] c = "3" -> 3 [] c = "4" -> 4
      [] c = "5" -> 5 [] c = "6" -> 6 [] c = "7" -> 7 [] c = "8" -> 8 [] c = "9" -> 9

\* null, as returned by GET and HMGET for a missing key or field.  Every
\* string is a sequence of one-character strings; null is none of them.
Null == <<"null">>

\* NaN, the result of parseInt on a string that does not start with a digit.
NaN == 0 - 2147483647

\* Number.prototype.toString() of a non-negative integer.
RECURSIVE ToString(_)
ToString(n) ==
    IF n < 10 THEN <<DigitChars[n + 1]>>
    ELSE ToString(n \div 10) \o <<DigitChars[(n % 10) + 1]>>

\* toString() of any number a strategy writes.
NumToString(n) ==
    IF n = NaN THEN <<"N", "a", "N">>
    ELSE IF n < 0 THEN <<"-">> \o ToString(0 - n)
    ELSE ToString(n)

\* The value of the digits of s from position i on, up to the first
\* character that is no digit; acc is the value of the digits read so far.
RECURSIVE ReadDigits(_, _, _)
ReadDigits(s, i, acc) ==
    IF i > Len(s) \/ ~IsDigit(s[i]) THEN acc
    ELSE ReadDigits(s, i + 1, acc * 10 + DigitVal(s[i]))

\* parseInt(s): the value of the leading digits, NaN when there are none.
ParseInt(s) ==
    IF s = <<>> \/ ~IsDigit(s[1]) THEN NaN ELSE ReadDigits(s, 1, 0)

\* Whether Redis reads the string as an integer (INCR needs one).
IsIntegerString(s) == s # <<>> /\ \A i \in 1..Len(s) : IsDigit(s[i])

\* JavaScript truthiness of a string-or-null: null and "" are falsy.
Truthy(v) == v # Null /\ v # <<>>

\* value ? parseInt(value) : dflt
ParseOr(v, dflt) == IF Truthy(v) THEN ParseInt(v) ELSE dflt

\* Arithmetic and comparison of numbers: NaN propagates, and every
\* comparison with NaN is false.
JsGE(a, b) == a # NaN /\ b # NaN /\ a >= b
JsLT(a, b) == a # NaN /\ b # NaN /\ a < b
JsLE(a, b) == a # NaN /\ b # NaN /\ a <= b
JsSub(a, b) == IF a = NaN \/ b = NaN THEN NaN ELSE a - b
JsAdd(a, b) == IF a = NaN \/ b = NaN THEN NaN ELSE a + b
JsMax0(a) == IF a = NaN THEN NaN ELSE IF a > 0 THEN a ELSE 0

---------------------------------------------------------------------------
(* The Redis server: keys of one identifier *)

\* Counter keys `${ip}:${n}`: a function from the numbers n of the keys that
\* exist to the value and expiry time of each.
NoCounters == [k \in {} |-> [val |-> <<>>, exp |-> NoExpiry]]

\* A hash or sorted-set key that does not exist.
NoHash == [h |-> [f \in {} |-> <<>>], exp |-> NoExpiry]
NoZSet == [members |-> {}, exp |-> NoExpiry]

EmptyStore ==
    [counters |-> NoCounters, sliding |-> NoZSet, leaky |-> NoHash, token |-> NoHash]

Expired(exp, t) == exp # NoExpiry /\ exp <= t

\* The keys the server still holds at time t.
Purge(s, t) ==
    [counters |-> [k \in {x \in DOMAIN s.counters : ~Expired(s.counters[x].exp, t)}
                     |-> s.counters[k]],
     sliding  |-> IF Expired(s.sliding.exp, t) THEN NoZSet ELSE s.sliding,
     leaky    |-> IF Expired(s.leaky.exp, t) THEN NoHash ELSE s.leaky,
     token    |-> IF Expired(s.token.exp, t) THEN NoHash ELSE s.token]

\* GET key
Get(c, k) == IF k \in DOMAIN c THEN c[k].val ELSE Null

\* SET key value EX seconds, at time t
SetEx(c, k, v, seconds, t) ==
    [x \in DOMAIN c \cup {k} |->
        IF x = k THEN [val |-> v, exp |-> t + seconds * 1000] ELSE c[x]]

\* INCR key: a missing key counts from 0 and gets no expiry, an existing one
\* keeps its expiry; a value that is no integer is an error.
Incr(c, k) ==
    IF k \notin DOMAIN c
    THEN [ok |-> TRUE,
          c |-> [x \in DOMAIN c \cup {k} |->
                    IF x = k THEN [val |-> ToString(1), exp |-> NoExpiry] ELSE c[x]]]
    ELSE IF IsIntegerString(c[k].val)
    THEN [ok |-> TRUE,
          c |-> [c EXCEPT ![k].val = ToString(ParseInt(c[k].val) + 1)]]
    ELSE [ok |-> FALSE, c |-> c]

\* ZREMRANGEBYSCORE key min max: both ends inclusive.  A sorted set left
\* empty is deleted, and its expiry with it.
ZRemRangeByScore(z, min, max) ==
    LET kept == {m \in z.members : ~(min <= m.score /\ m.score <= max)}
    IN  IF kept = {} THEN NoZSet ELSE [z EXCEPT !.members = kept]

\* ZCARD key
ZCard(z) == Cardinality(z.members)

\* ZADD key score member: a member already in the set only gets the score.
ZAdd(z, score, value) ==
    [z EXCEPT !.members =
        {m \in z.members : m.value # value} \cup {[score |-> score, value |-> value]}]

\* EXPIRE key seconds, at time t: nothing to do on a key that does not exist.
ZExpire(z, seconds, t) ==
    IF z.members = {} THEN z ELSE [z EXCEPT !.exp = t + seconds * 1000]

HExpire(hk, seconds, t) ==
    IF DOMAIN hk.h = {} THEN hk ELSE [hk EXCEPT !.exp = t + seconds * 1000]

\* HMGET key field
HmGet(hk, f) == IF f \in DOMAIN hk.h THEN hk.h[f] ELSE Null

\* HSET key {field: value, ...}: the other fields and the expiry are kept.
HSet(hk, fields) ==
    [hk EXCEPT !.h = [f \in DOMAIN hk.h \cup DOMAIN fields |->
                         IF f \in DOMAIN fields THEN fields[f] ELSE hk.h[f]]]

\* Math.ceil(windowMs / 1000) + 60, the seconds after which the sliding log
\* and the two buckets expire.
CleanupSeconds == ((windowMs + 999) \div 1000) + 60

---------------------------------------------------------------------------
(* The strategies.  Each takes the keys s of the identifier, the value t   *)
(* of Date.now() and the store operation that fails, and gives the keys    *)
(* after the call, what the call returned ("true", "false", or "throw"     *)
(* for a rejected promise) and whether a store operation failed.           *)

Done(s, ret, err) == [store |-> s, ret |-> ret, err |-> err]

\* A limit check that lets two calls too many through.
FixedWindowExceededLate(reqCount) ==
    Truthy(reqCount) /\ ParseInt(reqCount) # NaN /\ ParseInt(reqCount) >= maxRequests + 2

\* reqCount && parseInt(reqCount) >= this.maxRequests
FixedWindowExceeded(reqCount) ==
    Truthy(reqCount) /\ JsGE(ParseInt(reqCount), maxRequests)

FixedWindow(s, t, failAt) ==
    LET windowStart == (t \div windowMs) * windowMs
        key         == windowStart
        reqCount    == Get(s.counters, key)
        afterSet    == IF reqCount = Null
                       THEN [s EXCEPT !.counters =
                                SetEx(@, key, NumToString(1), windowMs, t)]
                       ELSE s
        incrOp      == IF reqCount = Null THEN 3 ELSE 2
        incr        == Incr(afterSet.counters, key)
    IN  IF failAt = 1 THEN Done(s, "false", TRUE)
        ELSE IF reqCount = Null /\ failAt = 2 THEN Done(s, "false", TRUE)
        ELSE IF FixedWindowExceeded(reqCount) THEN Done(afterSet, "false", FALSE)
        ELSE IF failAt = incrOp \/ ~incr.ok THEN Done(afterSet, "false", TRUE)
        ELSE Done([afterSet EXCEPT !.counters = incr.c], "true", FALSE)

\* zRemRangeByScore(key, 0, currentTime - this.windowMs)
PruneLog(z, t) == ZRemRangeByScore(z, 0, t - windowMs)

\* zAdd(key, {score: currentTime, value: currentTime.toString()})
AddToLog(z, t) == ZAdd(z, t, NumToString(t))

SlidingLogs(s, t, failAt) ==
    LET pruned       == [s EXCEPT !.sliding = PruneLog(@, t)]
        requestCount == ZCard(pruned.sliding)
        added        == [pruned EXCEPT !.sliding = AddToLog(@, t)]
        refreshed    == [added EXCEPT !.sliding = ZExpire(@, CleanupSeconds, t)]
    IN  IF failAt = 1 THEN Done(s, "false", TRUE)
        ELSE IF failAt = 2 THEN Done(pruned, "false", TRUE)
        ELSE IF requestCount >= maxRequests THEN Done(pruned, "false", FALSE)
        ELSE IF failAt = 3 THEN Done(pruned, "false", TRUE)
        ELSE IF failAt = 4 THEN Done(added, "false", TRUE)
        ELSE Done(refreshed, "true", FALSE)

\* A bucket that leaks twice as fast.
LeakedAmountFast(elapsed) ==
    IF elapsed = NaN THEN NaN ELSE (elapsed * 2 * maxRequests) \div windowMs

\* A bucket that does not leak.
LeakedAmountNone(elapsed) == IF elapsed = NaN THEN NaN ELSE 0

\* Math.floor(elapsed / (this.windowMs / this.maxRequests)); windowMs is a
\* multiple of maxRequests, so the quotient is the exact one.
LeakedAmount(elapsed) ==
    IF elapsed = NaN THEN NaN ELSE (elapsed * maxRequests) \div windowMs

\* Math.max(0, currentBucketLevel - leakedAmount)
NewBucketLevel(currentBucketLevel, leakedAmount) ==
    JsMax0(JsSub(currentBucketLevel, leakedAmount))

LeakyBucket(s, t, failAt) ==
    LET lastRequest        == HmGet(s.leaky, "lastRequest")
        bucketLevel        == HmGet(s.leaky, "bucketLevel")
        lastRequestTime    == ParseOr(lastRequest, 0)
        currentBucketLevel == ParseOr(bucketLevel, 0)
        elapsed            == JsSub(t, lastRequestTime)
        leakedAmount       == LeakedAmount(elapsed)
        newBucketLevel     == NewBucketLevel(currentBucketLevel, leakedAmount)
        written            == [s EXCEPT !.leaky =
                                 HSet(@, [lastRequest |-> NumToString(t),
                                          bucketLevel |->
                                              NumToString(JsAdd(newBucketLevel, 1))])]
        refreshed          == [written EXCEPT !.leaky = HExpire(@, CleanupSeconds, t)]
    IN  IF failAt = 1 THEN Done(s, "false", TRUE)
        ELSE IF JsGE(newBucketLevel, maxRequests) THEN Done(s, "false", FALSE)
        ELSE IF failAt = 2 THEN Done(s, "false", TRUE)
        ELSE IF failAt = 3 THEN Done(written, "false", TRUE)
        ELSE Done(refreshed, "true", FALSE)

\* A weighted count that is denied only above the limit.
WeightedOverLimit(parsedLastCount, parsedCount, t) ==
    /\ parsedLastCount # NaN
    /\ parsedCount # NaN
    /\ parsedLastCount * (windowMs - (t % windowMs)) + parsedCount * windowMs
           > maxRequests * windowMs

\* parsedLastCount * (1 - (currentTime % windowMs) / windowMs) + parsedCount
\*     >= this.maxRequests, both sides multiplied by windowMs.
WeightedAtLimit(parsedLastCount, parsedCount, t) ==
    /\ parsedLastCount # NaN
    /\ parsedCount # NaN
    /\ parsedLastCount * (windowMs - (t % windowMs)) + parsedCount * windowMs
           >= maxRequests * windowMs

\* No try/catch encloses this strategy: a failing store operation rejects
\* the promise the call returned.
SlidingWindow(s, t, failAt) ==
    LET currentWindow   == t \div windowMs
        key             == currentWindow
        requestCount    == Get(s.counters, key)
        parsedCount     == ParseOr(requestCount, 0)
        lastWindowCount == Get(s.counters, currentWindow - 1)
        parsedLastCount == ParseOr(lastWindowCount, 0)
        written         == [s EXCEPT !.counters =
                              SetEx(@, key, NumToString(JsAdd(parsedCount, 1)),
                                    windowMs, t)]
    IN  IF failAt = 1 THEN Done(s, "throw", TRUE)
        ELSE IF JsGE(parsedCount, maxRequests) THEN Done(s, "false", FALSE)
        ELSE IF failAt = 2 THEN Done(s, "throw", TRUE)
        ELSE IF WeightedAtLimit(parsedLastCount, parsedCount, t)
             THEN Done(s, "false", FALSE)
        ELSE IF failAt = 3 THEN Done(s, "throw", TRUE)
        ELSE Done(written, "true", FALSE)

\* A refill that waits for more than a whole window.
NeedsRefillLate(elapsed) == elapsed # NaN /\ elapsed > windowMs

\* elapsed >= this.windowMs
NeedsRefill(elapsed) == JsGE(elapsed, windowMs)

TokenBucket(s, t, failAt) ==
    LET tokenCount        == HmGet(s.token, "tokenCount")
        lastRefill        == HmGet(s.token, "lastRefill")
        currentTokenCount == ParseOr(tokenCount, maxRequests)
        lastRefillTime    == ParseOr(lastRefill, 0)
        elapsed           == JsSub(t, lastRefillTime)
        newTokenCount     == maxRequests - 1
        refilled          == [s EXCEPT !.token =
                                HSet(@, [tokenCount |-> NumToString(newTokenCount),
                                         lastRefill |-> NumToString(t)])]
        written           == [s EXCEPT !.token =
                                HSet(@, [tokenCount |->
                                             NumToString(JsSub(currentTokenCount, 1)),
                                         lastRefill |-> NumToString(lastRefillTime)])]
        refreshed         == [written EXCEPT !.token = HExpire(@, CleanupSeconds, t)]
    IN  IF failAt = 1 THEN Done(s, "false", TRUE)
        ELSE IF NeedsRefill(elapsed)
             THEN IF failAt = 2 THEN Done(s, "false", TRUE)
                  ELSE Done(refilled, "true", FALSE)
        ELSE IF JsLE(currentTokenCount, 0) THEN Done(s, "false", FALSE)
        ELSE IF failAt = 2 THEN Done(s, "false", TRUE)
        ELSE IF failAt = 3 THEN Done(written, "false", TRUE)
        ELSE Done(refreshed, "true", FALSE)

\* The strategy the deployment calls.
Strategy(alg, s, t, failAt) ==
    CASE alg = "fixedWindow"   -> FixedWindow(s, t, failAt)
      [] alg = "slidingLogs"   -> SlidingLogs(s, t, failAt)
      [] alg = "leakyBucket"   -> LeakyBucket(s, t, failAt)
      [] alg = "slidingWindow" -> SlidingWindow(s, t, failAt)
      [] alg = "tokenBucket"   -> TokenBucket(s, t, failAt)

---------------------------------------------------------------------------
(* State *)

VARIABLES
    now,        \* Date.now()
    epoch,      \* the time the clock's bounded steps are counted from
    algorithm,  \* the strategy the deployment calls
    store,      \* the keys of the identifier on the Redis server
    twin,       \* the keys of a second identifier, first seen when the
                \* first one came back from an idle window
    twinOn,     \* whether the second identifier is being followed
    called,     \* time and result of the latest call
    recent,     \* times of the calls that returned true, the last windowMs
    erred,      \* whether a store operation has failed so far
    last,       \* the call made in the step that led here, if it was a call
    calls,      \* concurrent calls: the call of each caller, in flight or done
    overAdmitted,   \* the strategies seen to allow two racing calls too many
    recovered,      \* the strategies seen to allow a call after a long idle
    db,         \* two identifiers: all keys of the Redis server, by name
    solo        \* two identifiers: the keys each would have were it alone

\* What only the sequential calls use, and what only the concurrent ones.
seqVars == <<twin, twinOn>>
concVars == <<calls, overAdmitted, recovered>>
twoVars == <<db, solo>>

vars == <<now, epoch, algorithm, store, twin, twinOn, called, recent, erred, last,
          calls, overAdmitted, recovered, db, solo>>

\* The two callers whose calls may overlap.
Callers == {1, 2}

\* A caller that has made no call: pc is the number of the store operation
\* its call issues next, 0 when no call is in flight.
NoFlight ==
    [pc |-> 0, t |-> Never, read |-> <<>>, rested |-> FALSE, left |-> FALSE,
     mate |-> "none"]

NoConcurrency ==
    /\ calls = [p \in Callers |-> NoFlight]
    /\ overAdmitted = {}
    /\ recovered = {}

\* The identifiers of the two-identifier behaviours: a short one, and one
\* that reads like a key of it.
Ids == {<<"1">>, <<"1", ":", "2">>}

NoKeys == [k \in {} |-> NoZSet]

NoOthers ==
    /\ db = NoKeys
    /\ solo = [ip \in Ids |-> EmptyStore]

NoCall ==
    [ret |-> "none", err |-> FALSE, idle |-> FALSE, twinRet |-> "none",
     rested |-> FALSE, mate |-> "none"]

Init ==
    /\ now = StartTime
    /\ epoch = StartTime
    /\ algorithm \in Algorithms
    /\ store = EmptyStore
    /\ twin = EmptyStore
    /\ twinOn = FALSE
    /\ called = [at |-> Never, ret |-> "none"]
    /\ recent = <<>>
    /\ erred = FALSE
    /\ last = NoCall
    /\ NoConcurrency
    /\ NoOthers

\* Whether the identifier made no call during the last windowMs.
Idle == called.at = Never \/ now - called.at >= windowMs

\* One call of strategy alg for the identifier, at the current time.  An
\* identifier that comes back after windowMs without a call gets a twin
\* that was never seen; the twin receives the same calls from then on, as
\* long as the store works.  At most one call of a behaviour meets a store
\* failure.
Request(alg, failAt) ==
    /\ Len(recent) < MaxAllowed
    /\ failAt # 0 => ~erred
    /\ LET back  == called.at # Never /\ Idle
           r     == Strategy(alg, store, now, failAt)
           rt    == Strategy(alg, IF back THEN EmptyStore ELSE twin, now, failAt)
           going == (twinOn \/ back) /\ ~erred /\ ~r.err /\ ~rt.err
       IN  /\ store' = r.store
           /\ twin' = IF going THEN rt.store ELSE EmptyStore
           /\ twinOn' = going
           /\ called' = [at |-> now, ret |-> r.ret]
           /\ recent' = IF r.ret = "true" THEN Append(recent, now) ELSE recent
           /\ erred' = (erred \/ r.err)
           /\ last' = [NoCall EXCEPT !.ret = r.ret, !.err = r.err, !.idle = Idle,
                                      !.twinRet = IF going THEN rt.ret ELSE "none"]
    /\ UNCHANGED <<now, epoch, algorithm>>
    /\ UNCHANGED concVars
    /\ UNCHANGED twoVars

CallFixedWindow ==
    /\ algorithm = "fixedWindow"
    /\ \E failAt \in FailPoints("fixedWindow") : Request("fixedWindow", failAt)

CallSlidingLogs ==
    /\ algorithm = "slidingLogs"
    /\ \E failAt \in FailPoints("slidingLogs") : Request("slidingLogs", failAt)

CallLeakyBucket ==
    /\ algorithm = "leakyBucket"
    /\ \E failAt \in FailPoints("leakyBucket") : Request("leakyBucket", failAt)

CallSlidingWindow ==
    /\ algorithm = "slidingWindow"
    /\ \E failAt \in FailPoints("slidingWindow") : Request("slidingWindow", failAt)

CallTokenBucket ==
    /\ algorithm = "tokenBucket"
    /\ \E failAt \in FailPoints("tokenBucket") : Request("tokenBucket", failAt)

\* The clock moves to t: the server drops the keys that expired, and the
\* record of recent calls the ones older than windowMs.
Advance(t) ==
    /\ now' = t
    /\ store' = Purge(store, t)
    /\ twin' = Purge(twin, t)
    /\ recent' = SelectSeq(recent, LAMBDA x : x >= t - windowMs)
    /\ last' = NoCall
    /\ UNCHANGED <<algorithm, twinOn, called, erred>>
    /\ UNCHANGED concVars
    /\ UNCHANGED twoVars

Tick ==
    /\ now + TickMs <= epoch + TickMs *
           (IF epoch = StartTime THEN MaxTicks ELSE MaxTicksAfterJump)
    /\ Advance(now + TickMs)
    /\ UNCHANGED epoch

\* The times at which a key of the identifier expires.
ExpiryTimes(s) ==
    ({s.counters[k].exp : k \in DOMAIN s.counters}
        \cup {s.sliding.exp, s.leaky.exp, s.token.exp}) \ {NoExpiry}

\* A long idle period: the clock moves to one step before a key expires.
JumpToExpiry ==
    /\ epoch = StartTime
    /\ \E e \in ExpiryTimes(store) :
          /\ e - TickMs > now
          /\ Advance(e - TickMs)
          /\ epoch' = e - TickMs

Next ==
    \/ CallFixedWindow
    \/ CallSlidingLogs
    \/ CallLeakyBucket
    \/ CallSlidingWindow
    \/ CallTokenBucket
    \/ Tick
    \/ JumpToExpiry

Spec == Init /\ [][Next]_vars

---------------------------------------------------------------------------
(* What the claims speak of *)

\* A call was made in the step that led to this state.
Called == last.ret # "none"

\* The number of entries of the record seq with a time of lo or later.
CountFrom(seq, lo) == Cardinality({i \in DOMAIN seq : seq[i] >= lo})

\* The number of calls that had returned true at time lo or later when the
\* call that led to this state was made.
AllowedBefore(lo) == CountFrom(recent, lo) - (IF last.ret = "true" THEN 1 ELSE 0)

\* The window of the fixed-window strategy that holds time t.
WindowStart(t) == (t \div windowMs) * windowMs

\* The stored bucket level of keys s, 0 without one, and what is left of it
\* at time t.
StoredLevel(s) == ParseOr(HmGet(s.leaky, "bucketLevel"), 0)

EffectiveLevel(s, t) ==
    NewBucketLevel(StoredLevel(s),
                   LeakedAmount(t - ParseOr(HmGet(s.leaky, "lastRequest"), 0)))

---------------------------------------------------------------------------
(* Concurrent calls.  A call is the sequence of store operations its      *)
(* strategy awaits one after the other; between two of them the           *)
(* operations of another call for the same identifier may reach the       *)
(* store.  A call takes Date.now() and issues its first operation when it *)
(* is made.                                                               *)

\* Bounds of the concurrent calls: the clock steps before the long idle
\* period, and the calls a strategy is followed for.
MaxTicksConc == 1
MaxCallsConc == 6

\* The strategies are followed one after the other, each with an identifier
\* of its own and after a long pause.
PhaseMs == 10 * windowMs

NextAlgorithm(alg) ==
    CASE alg = "fixedWindow"   -> "slidingLogs"
      [] alg = "slidingLogs"   -> "leakyBucket"
      [] alg = "leakyBucket"   -> "slidingWindow"
      [] alg = "slidingWindow" -> "tokenBucket"
      [] alg = "tokenBucket"   -> "tokenBucket"

\* What a store operation of a call leaves: the keys, the operation the call
\* issues next (0 when it has returned), what it has read, what it returned.
OpResult(s, pc, read, ret) == [store |-> s, pc |-> pc, read |-> read, ret |-> ret]

\* A store that refuses to count past the limit.
IncrCapped(c, k) ==
    IF k \in DOMAIN c /\ IsIntegerString(c[k].val) /\ ParseInt(c[k].val) >= maxRequests
    THEN [ok |-> FALSE, c |-> c]
    ELSE Incr(c, k)

\* The increment of fixedWindow's last step.
IncrCount(c, k) == Incr(c, k)

\* fixedWindow: 1 GET, 2 SET (a key that was absent), 3 INCR.
FixedWindowOp(s, c, t) ==
    LET key == (c.t \div windowMs) * windowMs
    IN  CASE c.pc = 1 ->
               LET reqCount == Get(s.counters, key)
               IN  IF reqCount = Null THEN OpResult(s, 2, <<reqCount>>, "none")
                   ELSE IF FixedWindowExceeded(reqCount)
                        THEN OpResult(s, 0, <<reqCount>>, "false")
                   ELSE OpResult(s, 3, <<reqCount>>, "none")
          [] c.pc = 2 ->
               OpResult([s EXCEPT !.counters =
                            SetEx(@, key, NumToString(1), windowMs, t)],
                        3, c.read, "none")
          [] c.pc = 3 ->
               LET incr == IncrCount(s.counters, key)
               IN  IF incr.ok
                   THEN OpResult([s EXCEPT !.counters = incr.c], 0, c.read, "true")
                   ELSE OpResult(s, 0, c.read, "false")

\* slidingLogs: 1 zRemRangeByScore, 2 zCard, 3 zAdd, 4 expire.
SlidingLogsOp(s, c, t) ==
    CASE c.pc = 1 ->
           OpResult([s EXCEPT !.sliding = PruneLog(@, c.t)], 2, c.read, "none")
      [] c.pc = 2 ->
           LET requestCount == ZCard(s.sliding)
           IN  IF requestCount >= maxRequests
               THEN OpResult(s, 0, <<requestCount>>, "false")
               ELSE OpResult(s, 3, <<requestCount>>, "none")
      [] c.pc = 3 ->
           OpResult([s EXCEPT !.sliding = AddToLog(@, c.t)], 4, c.read, "none")
      [] c.pc = 4 ->
           OpResult([s EXCEPT !.sliding = ZExpire(@, CleanupSeconds, t)],
                    0, c.read, "true")

\* The bucket level a leakyBucket call made at time t computes from what
\* it read.
LevelRead(read, t) ==
    NewBucketLevel(ParseOr(read[2], 0),
                   LeakedAmount(JsSub(t, ParseOr(read[1], 0))))

\* leakyBucket: 1 hmGet, 2 hSet, 3 expire.
LeakyBucketOp(s, c, t) ==
    CASE c.pc = 1 ->
           LET read == <<HmGet(s.leaky, "lastRequest"), HmGet(s.leaky, "bucketLevel")>>
           IN  IF JsGE(LevelRead(read, c.t), maxRequests)
               THEN OpResult(s, 0, read, "false")
               ELSE OpResult(s, 2, read, "none")
      [] c.pc = 2 ->
           OpResult([s EXCEPT !.leaky =
                        HSet(@, [lastRequest |-> NumToString(c.t),
                                 bucketLevel |->
                                     NumToString(JsAdd(LevelRead(c.read, c.t), 1))])],
                    3, c.read, "none")
      [] c.pc = 3 ->
           OpResult([s EXCEPT !.leaky = HExpire(@, CleanupSeconds, t)],
                    0, c.read, "true")

\* slidingWindow: 1 get (current window), 2 get (last window), 3 set.
SlidingWindowOp(s, c, t) ==
    LET currentWindow == c.t \div windowMs
    IN  CASE c.pc = 1 ->
               LET requestCount == Get(s.counters, currentWindow)
               IN  IF JsGE(ParseOr(requestCount, 0), maxRequests)
                   THEN OpResult(s, 0, <<requestCount>>, "false")
                   ELSE OpResult(s, 2, <<requestCount>>, "none")
          [] c.pc = 2 ->
               LET lastWindowCount == Get(s.counters, currentWindow - 1)
                   read            == <<c.read[1], lastWindowCount>>
               IN  IF WeightedAtLimit(ParseOr(lastWindowCount, 0),
                                      ParseOr(c.read[1], 0), c.t)
                   THEN OpResult(s, 0, read, "false")
                   ELSE OpResult(s, 3, read, "none")
          [] c.pc = 3 ->
               OpResult([s EXCEPT !.counters =
                            SetEx(@, currentWindow,
                                  NumToString(JsAdd(ParseOr(c.read[1], 0), 1)),
                                  windowMs, t)],
                        0, c.read, "true")

\* tokenBucket: 1 hmGet, 2 hSet (one token less), 3 expire, 4 hSet (refill).
TokenBucketOp(s, c, t) ==
    CASE c.pc = 1 ->
           LET read == <<HmGet(s.token, "tokenCount"), HmGet(s.token, "lastRefill")>>
               currentTokenCount == ParseOr(read[1], maxRequests)
               elapsed == JsSub(c.t, ParseOr(read[2], 0))
           IN  IF NeedsRefill(elapsed) THEN OpResult(s, 4, read, "none")
               ELSE IF JsLE(currentTokenCount, 0) THEN OpResult(s, 0, read, "false")
               ELSE OpResult(s, 2, read, "none")
      [] c.pc = 2 ->
           OpResult([s EXCEPT !.token =
                        HSet(@, [tokenCount |->
                                     NumToString(JsSub(ParseOr(c.read[1], maxRequests), 1)),
                                 lastRefill |-> NumToString(ParseOr(c.read[2], 0))])],
                    3, c.read, "none")
      [] c.pc = 3 ->
           OpResult([s EXCEPT !.token = HExpire(@, CleanupSeconds, t)],
                    0, c.read, "true")
      [] c.pc = 4 ->
           OpResult([s EXCEPT !.token =
                        HSet(@, [tokenCount |-> NumToString(maxRequests - 1),
                                 lastRefill |-> NumToString(c.t)])],
                    0, c.read, "true")

\* The next store operation of call c of strategy alg, on keys s at time t.
Op(alg, s, c, t) ==
    CASE alg = "fixedWindow"   -> FixedWindowOp(s, c, t)
      [] alg = "slidingLogs"   -> SlidingLogsOp(s, c, t)
      [] alg = "leakyBucket"   -> LeakyBucketOp(s, c, t)
      [] alg = "slidingWindow" -> SlidingWindowOp(s, c, t)
      [] alg = "tokenBucket"   -> TokenBucketOp(s, c, t)

\* A call that runs alone: its operations one after the other, none failing.
RECURSIVE RunAlone(_, _, _, _)
RunAlone(alg, s, c, t) ==
    LET r == Op(alg, s, c, t)
    IN  IF r.pc = 0 THEN r
        ELSE RunAlone(alg, r.store, [c EXCEPT !.pc = r.pc, !.read = r.read], t)

\* The operations of a call that runs alone amount to the strategy.
StepsAgree ==
    LET r == RunAlone(algorithm, store, [NoFlight EXCEPT !.pc = 1, !.t = now], now)
        d == Strategy(algorithm, store, now, 0)
    IN  r.store = d.store /\ r.ret = d.ret

\* The operation in which a call of the strategy reads what it decides on.
DecisionOp(alg) == IF alg \in {"slidingLogs", "slidingWindow"} THEN 2 ELSE 1

\* Whether what a call made at time t read is below the limit: fewer than
\* maxRequests counted, logged or in the bucket, or a token left.
ReadBelowLimit(alg, read, t) ==
    CASE alg = "fixedWindow"   ->
           ParseOr(read[1], 0) # NaN /\ ParseOr(read[1], 0) < maxRequests
      [] alg = "slidingLogs"   -> read[1] < maxRequests
      [] alg = "leakyBucket"   ->
           LevelRead(read, t) # NaN /\ LevelRead(read, t) < maxRequests
      [] alg = "slidingWindow" ->
           /\ ParseOr(read[1], 0) # NaN /\ ParseOr(read[2], 0) # NaN
           /\ ParseOr(read[2], 0) * (windowMs - (t % windowMs))
                  + ParseOr(read[1], 0) * windowMs < maxRequests * windowMs
      [] alg = "tokenBucket"   ->
           \/ t - ParseOr(read[2], 0) >= windowMs
           \/ ParseOr(read[1], maxRequests) > 0

\* The start of the window a call made at time t is counted in: the aligned
\* window of the two counters, the trailing one of the others.
BudgetStart(alg, t) ==
    IF alg \in {"fixedWindow", "slidingWindow"} THEN WindowStart(t)
    ELSE t - windowMs + 1

InFlight(c) == c.pc # 0

Quiet == \A p \in Callers : ~InFlight(calls[p])

\* Whether the long idle period of the strategy has passed.
Rested == now >= epoch + 2 * windowMs

\* Two calls in flight that both read below the limit with one request left
\* in the budget: the one that read later did so before the other wrote its
\* last.  The call that returns first leaves its result with its mate.
Mated(c, other, outcome) ==
    IF c.left /\ InFlight(other) /\ other.left
    THEN [other EXCEPT !.mate = outcome] ELSE other

\* Call c of caller p, begun or continued by one store operation that left
\* r; other is the call of the other caller.
AfterOp(p, c, r, other) ==
    LET deciding == c.pc = DecisionOp(algorithm)
        left     == IF deciding
                    THEN /\ ReadBelowLimit(algorithm, r.read, c.t)
                         /\ CountFrom(recent, BudgetStart(algorithm, c.t))
                                = maxRequests - 1
                    ELSE c.left
        going    == [c EXCEPT !.pc = r.pc, !.read = r.read, !.left = left]
        allowed  == IF r.ret = "true" THEN Append(recent, c.t) ELSE recent
        raced    == /\ r.ret = "true"
                    /\ c.mate = "true"
                    /\ CountFrom(allowed, BudgetStart(algorithm, c.t)) > maxRequests
        back     == r.ret = "true" /\ c.rested /\ algorithm \in overAdmitted
    IN  /\ store' = r.store
        /\ recent' = allowed
        /\ calls' = [x \in Callers |->
                        IF x # p THEN (IF r.pc = 0 THEN Mated(going, other, r.ret)
                                       ELSE other)
                        ELSE IF r.pc = 0 THEN NoFlight ELSE going]
        /\ last' = IF r.pc = 0
                   THEN [NoCall EXCEPT !.ret = r.ret, !.rested = c.rested,
                                       !.mate = c.mate]
                   ELSE NoCall
        /\ overAdmitted' = IF raced THEN overAdmitted \cup {algorithm} ELSE overAdmitted
        /\ recovered' = IF back THEN recovered \cup {algorithm} ELSE recovered

\* A caller makes a call: it takes the time and issues the first operation.
\* The second caller is the one whose call overlaps with a call in flight.
\* After the long idle period one call is made, and it runs alone.
Begin(p) ==
    /\ ~InFlight(calls[p])
    /\ \E q \in Callers \ {p} :
          /\ p = 2 => InFlight(calls[q])
          /\ Rested => (~InFlight(calls[q]) /\ now - called.at >= 2 * windowMs)
          /\ Len(recent) + (IF InFlight(calls[q]) THEN 1 ELSE 0) < MaxCallsConc
          /\ LET c == [NoFlight EXCEPT !.pc = 1, !.t = now, !.rested = Rested]
             IN  AfterOp(p, c, Op(algorithm, store, c, now), calls[q])
    /\ called' = [at |-> now, ret |-> "none"]
    /\ UNCHANGED <<now, epoch, algorithm, erred>>
    /\ UNCHANGED seqVars
    /\ UNCHANGED twoVars

\* The call of caller p issues its next operation.
Continue(p) ==
    /\ InFlight(calls[p])
    /\ \E q \in Callers \ {p} :
          AfterOp(p, calls[p], Op(algorithm, store, calls[p], now), calls[q])
    /\ UNCHANGED <<now, epoch, algorithm, called, erred>>
    /\ UNCHANGED seqVars
    /\ UNCHANGED twoVars

\* The next operation of the call of caller p fails: the call returns false,
\* or rejects where nothing catches the error.  At most one call of a
\* strategy meets a store failure.
Fail(p) ==
    /\ InFlight(calls[p])
    /\ ~erred
    /\ erred' = TRUE
    /\ \E q \in Callers \ {p} :
          calls' = [x \in Callers |->
                       IF x = p THEN NoFlight
                       ELSE Mated(calls[p], calls[q], "failed")]
    /\ last' = [NoCall EXCEPT
                   !.ret = IF algorithm = "slidingWindow" THEN "throw" ELSE "false",
                   !.err = TRUE, !.rested = calls[p].rested, !.mate = calls[p].mate]
    /\ UNCHANGED <<now, epoch, algorithm, store, called, recent,
                   overAdmitted, recovered>>
    /\ UNCHANGED seqVars
    /\ UNCHANGED twoVars

\* The clock moves to t while calls may be in flight.
ConcAdvance(t) ==
    /\ now' = t
    /\ store' = Purge(store, t)
    /\ recent' = SelectSeq(recent, LAMBDA x : x >= t - windowMs)
    /\ last' = NoCall
    /\ UNCHANGED <<epoch, algorithm, called, erred>>
    /\ UNCHANGED seqVars
    /\ UNCHANGED concVars
    /\ UNCHANGED twoVars

ConcTick ==
    /\ now + TickMs <= epoch + TickMs * MaxTicksConc
    /\ ConcAdvance(now + TickMs)

\* No call is made for 2 * windowMs.
LongIdle ==
    /\ Quiet
    /\ ~Rested
    /\ ConcAdvance(now + 2 * windowMs)

\* The next strategy is followed, with an identifier never seen, once this
\* one was seen to over-admit and to recover.
Switch ==
    /\ Quiet
    /\ algorithm # NextAlgorithm(algorithm)
    /\ algorithm \in overAdmitted \cap recovered
    /\ algorithm' = NextAlgorithm(algorithm)
    /\ epoch' = epoch + PhaseMs
    /\ now' = epoch + PhaseMs
    /\ store' = EmptyStore
    /\ recent' = <<>>
    /\ called' = [at |-> Never, ret |-> "none"]
    /\ calls' = [p \in Callers |-> NoFlight]
    /\ last' = NoCall
    /\ erred' = FALSE
    /\ UNCHANGED <<overAdmitted, recovered>>
    /\ UNCHANGED seqVars
    /\ UNCHANGED twoVars

ConcInit ==
    /\ now = StartTime
    /\ epoch = StartTime
    /\ algorithm = "fixedWindow"
    /\ store = EmptyStore
    /\ twin = EmptyStore
    /\ twinOn = FALSE
    /\ called = [at |-> Never, ret |-> "none"]
    /\ recent = <<>>
    /\ erred = FALSE
    /\ last = NoCall
    /\ NoConcurrency
    /\ NoOthers

ConcNext ==
    \/ \E p \in Callers : Begin(p)
    \/ \E p \in Callers : Continue(p)
    \/ \E p \in Callers : Fail(p)
    \/ ConcTick
    \/ LongIdle
    \/ Switch

SpecConc == ConcInit /\ [][ConcNext]_vars

---------------------------------------------------------------------------
(* Two identifiers.  The server holds one keyspace; every strategy names  *)
(* its keys by a string built from the identifier of the call.            *)

\* Bound: the clock steps the two identifiers are followed for.
MaxTicksTwo == 2

\* The two identifiers are followed in steps of two ticks, so that the
\* clock crosses into the next window.
TwoStepMs == 2 * TickMs

\* A counter key that leaves the identifier out.
CounterKeyNoId(ip, n) == ToString(n)

\* `${ip}:${windowStart}`, `${ip}:${currentWindow}`
CounterKey(ip, n) == ip \o <<":">> \o ToString(n)

\* `sliding:${ip}`, `leaky:${ip}`, `token:${ip}`
SlidingKey(ip) == <<"s", "l", "i", "d", "i", "n", "g", ":">> \o ip
LeakyKey(ip) == <<"l", "e", "a", "k", "y", ":">> \o ip
TokenKey(ip) == <<"t", "o", "k", "e", "n", ":">> \o ip

\* The numbers a call made within the bounded clock puts in a counter key:
\* the start of its window, the index of the window and of the one before.
WindowNumbers ==
    UNION {{WindowStart(StartTime + i * TwoStepMs),
            (StartTime + i * TwoStepMs) \div windowMs,
            ((StartTime + i * TwoStepMs) \div windowMs) - 1} : i \in 0..MaxTicksTwo}

\* The keys of identifier ip among the keys d of the server.
View(d, ip) ==
    [counters |-> [n \in {x \in WindowNumbers : CounterKey(ip, x) \in DOMAIN d}
                     |-> d[CounterKey(ip, n)]],
     sliding  |-> IF SlidingKey(ip) \in DOMAIN d THEN d[SlidingKey(ip)] ELSE NoZSet,
     leaky    |-> IF LeakyKey(ip) \in DOMAIN d THEN d[LeakyKey(ip)] ELSE NoHash,
     token    |-> IF TokenKey(ip) \in DOMAIN d THEN d[TokenKey(ip)] ELSE NoHash]

\* The names a call for ip may give a key, and the keys s has under them.
KeyNames(ip) ==
    {CounterKey(ip, n) : n \in WindowNumbers}
        \cup {SlidingKey(ip), LeakyKey(ip), TokenKey(ip)}

KeysHeld(ip, s) ==
    {CounterKey(ip, n) : n \in DOMAIN s.counters}
        \cup (IF s.sliding.members # {} THEN {SlidingKey(ip)} ELSE {})
        \cup (IF DOMAIN s.leaky.h # {} THEN {LeakyKey(ip)} ELSE {})
        \cup (IF DOMAIN s.token.h # {} THEN {TokenKey(ip)} ELSE {})

\* The keys of the server after a call for ip left s as the keys of ip.
WriteBack(d, ip, s) ==
    [k \in (DOMAIN d \ KeyNames(ip)) \cup KeysHeld(ip, s) |->
        IF k \notin KeysHeld(ip, s) THEN d[k]
        ELSE IF k = SlidingKey(ip) THEN s.sliding
        ELSE IF k = LeakyKey(ip) THEN s.leaky
        ELSE IF k = TokenKey(ip) THEN s.token
        ELSE s.counters[CHOOSE n \in DOMAIN s.counters : CounterKey(ip, n) = k]]

\* The keys the server still holds at time t.
PurgeKeys(d, t) == [k \in {x \in DOMAIN d : ~Expired(d[x].exp, t)} |-> d[k]]

\* A call of the deployed strategy for identifier ip; solo follows the keys
\* ip would have were it the only identifier.  At most one call of a
\* behaviour meets a store failure.
TwoRequest(ip, failAt) ==
    /\ failAt # 0 => ~erred
    /\ LET r  == Strategy(algorithm, View(db, ip), now, failAt)
           rs == Strategy(algorithm, solo[ip], now, failAt)
       IN  /\ db' = WriteBack(db, ip, r.store)
           /\ solo' = [solo EXCEPT ![ip] = rs.store]
           /\ erred' = (erred \/ r.err)
           /\ last' = [NoCall EXCEPT !.ret = r.ret, !.err = r.err, !.twinRet = rs.ret]
    /\ UNCHANGED <<now, epoch, algorithm, store, called, recent>>
    /\ UNCHANGED seqVars
    /\ UNCHANGED concVars

CallFor ==
    \E ip \in Ids : \E failAt \in FailPoints(algorithm) : TwoRequest(ip, failAt)

TwoTick ==
    /\ now + TwoStepMs <= StartTime + TwoStepMs * MaxTicksTwo
    /\ now' = now + TwoStepMs
    /\ db' = PurgeKeys(db, now + TwoStepMs)
    /\ solo' = [ip \in Ids |-> Purge(solo[ip], now + TwoStepMs)]
    /\ last' = NoCall
    /\ UNCHANGED <<epoch, algorithm, store, called, recent, erred>>
    /\ UNCHANGED seqVars
    /\ UNCHANGED concVars

TwoNext == CallFor \/ TwoTick

SpecTwo == Init /\ [][TwoNext]_vars

---------------------------------------------------------------------------
(* Malformed values.  The store is shared: a value of the identifier may  *)
(* be overwritten, by another writer, with a string that is no number.    *)

\* Bound: the clock steps a malformed value is followed for.
MaxTicksMalformed == 2

Garbage == <<"x">>

\* The stored values of keys s that a strategy reads as numbers.
WellFormed(v) == IsIntegerString(v)

\* Keys s without the values that do not parse: a counter key that holds
\* one is missing, and so is a field of a hash.
WithoutField(hk) ==
    LET kept == {f \in DOMAIN hk.h : WellFormed(hk.h[f])}
    IN  IF kept = {} THEN NoHash ELSE [hk EXCEPT !.h = [f \in kept |-> hk.h[f]]]

Absent(s) ==
    [s EXCEPT !.counters = [k \in {x \in DOMAIN s.counters : WellFormed(s.counters[x].val)}
                              |-> s.counters[k]],
              !.leaky = WithoutField(@),
              !.token = WithoutField(@)]

Malformed(s) == Absent(s) # s

\* Another writer overwrites a stored value of the identifier.
Corrupt ==
    /\ ~Malformed(store)
    /\ \/ \E k \in DOMAIN store.counters :
             store' = [store EXCEPT !.counters[k].val = Garbage]
       \/ \E f \in DOMAIN store.leaky.h :
             store' = [store EXCEPT !.leaky.h[f] = Garbage]
       \/ \E f \in DOMAIN store.token.h :
             store' = [store EXCEPT !.token.h[f] = Garbage]
    /\ last' = NoCall
    /\ UNCHANGED <<now, epoch, algorithm, twin, twinOn, called, recent, erred>>
    /\ UNCHANGED concVars
    /\ UNCHANGED twoVars

\* A call of the deployed strategy, the store working.
CallWorking == Request(algorithm, 0)

MalformedTick ==
    /\ now + TickMs <= StartTime + TickMs * MaxTicksMalformed
    /\ Advance(now + TickMs)
    /\ UNCHANGED epoch

MalformedNext == Corrupt \/ CallWorking \/ MalformedTick

SpecMalformed == Init /\ [][MalformedNext]_vars

---------------------------------------------------------------------------
(* Claims *)

\* C1: in every strategy, a call in which a store operation fails returns
\* false; no exception reaches the caller.
C1_FailClosed == last.err => last.ret = "false"

\* C2: sliding log, sequential calls at non-decreasing times: the calls that
\* returned true within the trailing interval (now - windowMs, now] never
\* number more than maxRequests.
C2_SlidingLogExact ==
    algorithm = "slidingLogs" =>
        CountFrom(recent, now - windowMs + 1) <= maxRequests

\* C3: monotonic denial: once maxRequests calls made at one timestamp have
\* returned true, the next call at that timestamp (the store working)
\* returns false.
C3_MonotonicDenial ==
    (Called /\ ~last.err /\ AllowedBefore(now) >= maxRequests) => last.ret = "false"

\* C4: fixed window, no store errors: a call returns true exactly when fewer
\* than maxRequests calls of its window have returned true before it (the
\* first maxRequests calls of a window are allowed, the later ones denied,
\* the first call of the next window allowed).
C4_FixedWindowBudget ==
    (algorithm = "fixedWindow" /\ Called /\ ~erred) =>
        (last.ret = "true" <=> AllowedBefore(WindowStart(now)) < maxRequests)

\* C5: window reset, fixedWindow and slidingWindow: after a call denied at
\* time t and no call in between, the call at t + windowMs returns true.
C5_WindowReset ==
    [][(/\ algorithm \in {"fixedWindow", "slidingWindow"}
        /\ last'.ret # "none"
        /\ ~last'.err
        /\ called.ret = "false"
        /\ now = called.at + windowMs) => last'.ret = "true"]_vars

\* The token bucket holds maxRequests - 1 tokens, refilled at the time of
\* the call that led to this state.
JustRefilled ==
    /\ HmGet(store.token, "tokenCount") = NumToString(maxRequests - 1)
    /\ HmGet(store.token, "lastRefill") = NumToString(now)

C7_LeakyDrain ==
    [][algorithm = "leakyBucket" =>
        /\ last'.ret = "none" =>
               EffectiveLevel(store', now') <= EffectiveLevel(store, now)
        /\ (last'.ret # "none" /\ StoredLevel(store') # StoredLevel(store)) =>
               last'.ret = "true"]_vars

\* C8: a call that returns false, for whatever reason, leaves the stored
\* state of the identifier as it was, but for the sliding log's removal of
\* expired entries.
C8_DenyKeepsState ==
    [][(last'.ret = "false") =>
        \/ store' = store
        \/ store' = [store EXCEPT !.sliding = PruneLog(@, now)]]_vars

\* C9: fresh-state equivalence: an identifier that made no call for windowMs
\* gets, for the calls that follow, the decisions a never seen identifier
\* gets for the same calls.
C9_FreshEquivalence == twinOn => last.ret = last.twinRet

\* The entries of the log the claim C10 has pruned at time t: those with a
\* score below t - windowMs.
StatedPrune(z, t) == {m \in z.members : m.score >= t - windowMs}

\* C10: sliding log decision rule, the store working: a call at time now
\* returns true exactly when fewer than maxRequests calls allowed before it
\* have a timestamp >= now - windowMs; the entries below now - windowMs, and
\* only those, are pruned, and on true exactly one entry, with score now, is
\* added to the log.
C10_SlidingLogRule ==
    [][(algorithm = "slidingLogs" /\ last'.ret # "none" /\ ~erred') =>
        /\ last'.ret = "true" <=> CountFrom(recent, now - windowMs) < maxRequests
        /\ last'.ret = "true" =>
               /\ Cardinality(store'.sliding.members)
                      = Cardinality(StatedPrune(store.sliding, now)) + 1
               /\ store'.sliding.members \ StatedPrune(store.sliding, now)
                      = {[score |-> now, value |-> NumToString(now)]}
        /\ last'.ret = "false" =>
               store'.sliding.members = StatedPrune(store.sliding, now)]_vars

\* The stored count of window w of the sliding window counter, 0 without one.
StoredCount(s, w) == ParseOr(Get(s.counters, w), 0)

\* The rule C11 states for a slidingWindow call made at time t on keys s
\* that led to keys s2 and returned ret.
WeightedRule(s, t, ret, s2) ==
    LET w    == t \div windowMs
        cur  == StoredCount(s, w)
        prev == StoredCount(s, w - 1)
    IN  /\ ret = "true" <=>
               prev * (windowMs - (t % windowMs)) + cur * windowMs
                   < maxRequests * windowMs
        /\ ret = "true" =>
               /\ StoredCount(s2, w) = cur + 1
               /\ Get(s2.counters, w - 1) = Get(s.counters, w - 1)
        /\ ret # "true" => s2 = s

C14_FixedWindowBurst ==
    algorithm = "fixedWindow" =>
        /\ CountFrom(recent, WindowStart(now)) <= maxRequests
        /\ CountFrom(recent, now - windowMs) <= 2 * maxRequests

\* C14, its case: calls clustered around a window boundary, more than
\* maxRequests of them allowed within windowMs, and the next one denied.
C14_Witness ==
    /\ algorithm = "fixedWindow"
    /\ last.ret = "false"
    /\ ~last.err
    /\ CountFrom(recent, now - windowMs) > maxRequests
    /\ CountFrom(recent, WindowStart(now)) > 0

\* The stored token count and refill time of keys s.
StoredTokens(s) == ParseOr(HmGet(s.token, "tokenCount"), maxRequests)
StoredRefill(s) == ParseOr(HmGet(s.token, "lastRefill"), 0)

\* C16: token bucket, sequential calls: an allowed call that does not refill
\* lowers tokenCount by exactly 1 and keeps lastRefill, and at most
\* maxRequests calls, the refilling one included, return true from one
\* refill to the next.
C16_TokenBudget ==
    [][algorithm = "tokenBucket" =>
        /\ (last'.ret = "true" /\ now - StoredRefill(store) < windowMs) =>
               /\ StoredTokens(store') = StoredTokens(store) - 1
               /\ HmGet(store'.token, "lastRefill") = HmGet(store.token, "lastRefill")
        /\ DOMAIN store'.token.h # {} =>
               CountFrom(recent', StoredRefill(store')) <= maxRequests]_vars

\* C16, its case: the last token of a refill period was spent, maxRequests
\* calls having returned true since the refill.
C16_Witness ==
    /\ algorithm = "tokenBucket"
    /\ last.ret = "true"
    /\ StoredTokens(store) = 0
    /\ StoredRefill(store) < now
    /\ CountFrom(recent, StoredRefill(store)) = maxRequests

\* C17: leaky bucket, sequential calls: a stored bucketLevel is in
\* 1..maxRequests, and at most 2 * maxRequests calls return true within any
\* interval of length windowMs.
C17_LeakyBound ==
    algorithm = "leakyBucket" =>
        /\ DOMAIN store.leaky.h # {} =>
               /\ IsIntegerString(HmGet(store.leaky, "bucketLevel"))
               /\ StoredLevel(store) \in 1..maxRequests
        /\ CountFrom(recent, now - windowMs) <= 2 * maxRequests

\* C17, its case: a full burst and the units drained after it were allowed
\* within windowMs, the bucket is full and the next call denied.
C17_Witness ==
    /\ algorithm = "leakyBucket"
    /\ last.ret = "false"
    /\ ~last.err
    /\ StoredLevel(store) = maxRequests
    /\ CountFrom(recent, now - windowMs) > maxRequests + 2


\* C12: two concurrent calls for one identifier that both read a state below
\* the limit with one request left in the budget both return true, and more
\* than maxRequests calls are then allowed in one window; such calls exist
\* for each strategy.
C12_OverAdmission ==
    (Called /\ last.mate \notin {"none", "failed"} /\ ~last.err) =>
        /\ last.ret = "true"
        /\ last.mate = "true"
        /\ CountFrom(recent, BudgetStart(algorithm, now)) > maxRequests

\* C12, its case: the second of two such calls of the token bucket has
\* returned true, and so it went before with each of the other strategies.
C12_Witness ==
    /\ algorithm = "tokenBucket"
    /\ last.ret = "true"
    /\ last.mate = "true"
    /\ CountFrom(recent, BudgetStart(algorithm, now)) > maxRequests
    /\ overAdmitted = Algorithms

\* C13: fixed window, concurrent calls: the counter of a window, once it
\* exists, never decreases during that window.
C13_CounterNeverDecreases ==
    [][algorithm = "fixedWindow" =>
        \A k \in DOMAIN store.counters \cap DOMAIN store'.counters :
            (k <= now' /\ now' < k + windowMs) =>
                ParseInt(store'.counters[k].val) >= ParseInt(store.counters[k].val)]_vars

\* C15: token bucket, concurrent calls included: a stored tokenCount is an
\* integer in 0..maxRequests.
C15_TokenRange ==
    (algorithm = "tokenBucket" /\ "tokenCount" \in DOMAIN store.token.h) =>
        /\ IsIntegerString(HmGet(store.token, "tokenCount"))
        /\ ParseInt(HmGet(store.token, "tokenCount")) \in 0..maxRequests

\* C15, its case: two concurrent calls both read the last token and both
\* spent it; the stored count is 0.
C15_Witness ==
    /\ algorithm = "tokenBucket"
    /\ last.ret = "true"
    /\ last.mate = "true"
    /\ HmGet(store.token, "tokenCount") = NumToString(0)

\* C18: no permanent lockout: in every strategy and from every state,
\* those left by concurrent calls included, the call that follows
\* 2 * windowMs without a call returns true when the store works.
C18_NoLockout ==
    (Called /\ last.rested /\ ~last.err) => last.ret = "true"

\* C18, its case: the token bucket, over-admitted by concurrent calls,
\* allowed the call made after the idle period, and so did each of the other
\* strategies before.
C18_Witness ==
    /\ algorithm = "tokenBucket"
    /\ last.rested
    /\ last.ret = "true"
    /\ recovered = Algorithms


\* C19: the keys of an identifier are those it would have were it the only
\* identifier, and each call is decided as it would be then: the calls of
\* one identifier change neither the keys nor the decisions of another.
C19_Independence ==
    /\ \A ip \in Ids : View(db, ip) = solo[ip]
    /\ last.ret = last.twinRet

\* Both identifiers hold keys, one of them is out of budget and was just
\* denied while the other holds different keys.
C19_Witness ==
    /\ last.ret = "false"
    /\ ~last.err
    /\ \A ip \in Ids : solo[ip] # EmptyStore
    /\ \E a, b \in Ids : solo[a] # solo[b]

\* C20: a call that finds a stored value which does not parse as an integer
\* decides and writes as it does when that value is missing, and no more
\* than 2 * maxRequests calls are allowed within windowMs.
C20_MalformedAsAbsent ==
    [][(last'.ret # "none" /\ Malformed(store)) =>
          LET r == Strategy(algorithm, Absent(store), now, 0)
          IN  /\ last'.ret = r.ret
              /\ store' = r.store
              /\ Len(recent') <= 2 * maxRequests]_vars

=============================================================================
